---- MODULE Spec2Model ----
(***************************************************************************)
(* Slider-crank piston-position solver (src/piston.cpp).                   *)
(*                                                                         *)
(* The C++ type float is modelled as a reduced-width number format:        *)
(* decimal fixed point with resolution 1/SCALE, round-to-nearest-even,     *)
(* overflow to +/-Inf above FLT_MAX, and IEEE-754 propagation of NaN and   *)
(* Inf.  Every value carries the sticky IEEE "inexact" flag ix, which is   *)
(* TRUE as soon as one operation that produced it had to round.            *)
(***************************************************************************)
EXTENDS Integers, Sequences, FiniteSets, TLC

VARIABLES
  engine,           \* the mechanism parameters (struct engine)
  piston_position,  \* the result of the latest call of calculate
  locals,           \* the locals of the latest call
  calls,            \* every call so far: <<parameters, result>>
  revision,         \* which of the three main loops of the sources runs
  interface,        \* the state of the UI components (struct interface)
  piston,           \* engine.piston of the stateful variant
  crankpin_position,\* engine.crankshaft.crankpin_position of that variant
  frame,            \* what the latest frame read, computed, wrote and drew
  frames            \* the number of frames so far

shell == <<revision, interface, piston, crankpin_position, frame, frames>>
vars == <<engine, piston_position, locals, calls, shell>>

\* ------------------------------------------------------------- float ----

\* Units per 1.0: a float holds an integer number of 1/SCALE.
SCALE == 10000

\* Largest finite magnitude, in units (100000.0).
FLT_MAX == 100000 * SCALE

IAbs(n) == IF n < 0 THEN -n ELSE n
ISign(n) == IF n < 0 THEN -1 ELSE 1

Fin(n, inexact) == [k |-> "fin", v |-> n, ix |-> inexact]
NaN == [k |-> "nan", v |-> 0, ix |-> TRUE]
Inf(sign, inexact) == [k |-> "inf", v |-> sign, ix |-> inexact]

\* A float literal given in units, and one given as a whole number.
F(n) == Fin(n, FALSE)
Real(n) == Fin(n * SCALE, FALSE)

IsNaN(x) == x.k = "nan"
IsInf(x) == x.k = "inf"
IsFin(x) == x.k = "fin"
FSign(x) == IF x.v < 0 THEN -1 ELSE 1

\* Round a magnitude that overflowed or not into a float.
Pack(n, inexact) ==
  IF IAbs(n) > FLT_MAX THEN Inf(ISign(n), TRUE) ELSE Fin(n, inexact)

\* Operator ==, <, <= of the language: every comparison with NaN is false.
FEq(x, y) ==
  /\ ~IsNaN(x) /\ ~IsNaN(y)
  /\ x.k = y.k /\ x.v = y.v
FLess(x, y) ==
  /\ ~IsNaN(x) /\ ~IsNaN(y)
  /\ IF IsInf(x) THEN x.v < 0 /\ ~(IsInf(y) /\ y.v < 0)
     ELSE IF IsInf(y) THEN y.v > 0
     ELSE x.v < y.v
FLessEq(x, y) == FLess(x, y) \/ FEq(x, y)

\* The same stored value (the same bits), NaN included.
FSame(x, y) == x.k = y.k /\ x.v = y.v

FNeg(x) == IF IsNaN(x) THEN NaN ELSE [x EXCEPT !.v = -x.v]
abs(x) == IF IsNaN(x) THEN NaN ELSE [x EXCEPT !.v = IF IsInf(x) THEN 1 ELSE IAbs(x.v)]

FAdd(x, y) ==
  IF IsNaN(x) \/ IsNaN(y) THEN NaN
  ELSE IF IsInf(x) /\ IsInf(y) THEN (IF x.v = y.v THEN Inf(x.v, x.ix \/ y.ix) ELSE NaN)
  ELSE IF IsInf(x) THEN Inf(x.v, x.ix \/ y.ix)
  ELSE IF IsInf(y) THEN Inf(y.v, x.ix \/ y.ix)
  ELSE Pack(x.v + y.v, x.ix \/ y.ix)

FSub(x, y) == FAdd(x, FNeg(y))

\* n * m = q * SCALE + r for magnitudes n, m <= FLT_MAX, computed in parts so
\* that no intermediate leaves the machine integers; over |-> TRUE when the
\* quotient exceeds FLT_MAX.
MulQR(n, m) ==
  LET nh == n \div SCALE
      nl == n % SCALE
      mh == m \div SCALE
      ml == m % SCALE
  IN  IF nh > 0 /\ mh > (FLT_MAX \div SCALE) \div nh
      THEN [over |-> TRUE, q |-> 0, r |-> 0]
      ELSE LET low == nl * ml
               q1 == nh * mh * SCALE + nh * ml
               q2 == q1 + nl * mh + low \div SCALE
           IN  IF q1 > FLT_MAX \/ q2 > FLT_MAX
               THEN [over |-> TRUE, q |-> 0, r |-> 0]
               ELSE [over |-> FALSE, q |-> q2, r |-> low % SCALE]

\* Round-to-nearest, ties to even, of q + r/d.
RoundQR(q, r, d) ==
  IF 2 * r > d \/ (2 * r = d /\ q % 2 = 1) THEN q + 1 ELSE q

FMul(x, y) ==
  IF IsNaN(x) \/ IsNaN(y) THEN NaN
  ELSE IF IsInf(x) \/ IsInf(y)
       THEN (IF x.v = 0 \/ y.v = 0 THEN NaN ELSE Inf(FSign(x) * FSign(y), x.ix \/ y.ix))
  ELSE LET p == MulQR(IAbs(x.v), IAbs(y.v))
           s == FSign(x) * FSign(y)
       IN  IF p.over THEN Inf(s, TRUE)
           ELSE Pack(s * RoundQR(p.q, p.r, SCALE), x.ix \/ y.ix \/ p.r # 0)

\* (r * m) \div d and (r * m) % d for 0 <= r < d, by repeated addition.
RECURSIVE MulMod(_, _, _)
MulMod(r, m, d) ==
  IF m = 0 THEN [q |-> 0, r |-> 0]
  ELSE LET p == MulMod(r, m - 1, d)
           s == p.r + r
       IN  IF s >= d THEN [q |-> p.q + 1, r |-> s - d] ELSE [q |-> p.q, r |-> s]

\* Long division: the decimal digits of n / d after the point, one per step.
RECURSIVE LongDiv(_, _, _, _)
LongDiv(q, r, d, scale) ==
  IF scale = 1 THEN [q |-> q, r |-> r]
  ELSE LET p == MulMod(r, 10, d)
       IN  LongDiv(q * 10 + p.q, p.r, d, scale \div 10)

FDiv(x, y) ==
  IF IsNaN(x) \/ IsNaN(y) THEN NaN
  ELSE IF IsInf(x) THEN (IF IsInf(y) THEN NaN ELSE Inf(FSign(x) * FSign(y), x.ix \/ y.ix))
  ELSE IF IsInf(y) THEN Fin(0, x.ix \/ y.ix)
  ELSE IF y.v = 0 THEN (IF x.v = 0 THEN NaN ELSE Inf(FSign(x), x.ix \/ y.ix))
  ELSE LET n == IAbs(x.v)
           d == IAbs(y.v)
           s == FSign(x) * FSign(y)
       IN  IF n \div d > FLT_MAX \div SCALE THEN Inf(s, TRUE)
           ELSE LET p == LongDiv(n \div d, n % d, d, SCALE)
                IN  Pack(s * RoundQR(p.q, p.r, d), x.ix \/ y.ix \/ p.r # 0)

\* s * s <= n * SCALE, compared in parts.
SqLeq(s, n) ==
  LET p == MulQR(s, s)
  IN  ~p.over /\ (p.q < n \/ (p.q = n /\ p.r = 0))

\* The largest s in lo..hi with s * s <= n * SCALE (lo satisfies it).
RECURSIVE SqrtSearch(_, _, _)
SqrtSearch(lo, hi, n) ==
  IF lo >= hi THEN lo
  ELSE LET mid == (lo + hi + 1) \div 2
       IN  IF SqLeq(mid, n) THEN SqrtSearch(mid, hi, n) ELSE SqrtSearch(lo, mid - 1, n)

sqrt(x) ==
  IF IsNaN(x) THEN NaN
  ELSE IF IsInf(x) THEN (IF x.v > 0 THEN x ELSE NaN)
  ELSE IF x.v < 0 THEN NaN
  ELSE LET n == x.v
           s == SqrtSearch(0, 4 * 1000 * 1000, n)
           p == MulQR(s, s)
           exact == p.q = n /\ p.r = 0
           \* round up when (s + 1/2)^2 < n * SCALE, i.e. s*s + s < n * SCALE
           up == p.q + (p.r + s) \div SCALE < n
       IN  Fin(IF up THEN s + 1 ELSE s, x.ix \/ ~exact)

\* ------------------------------------------------------------- vec2 -----

vec2(x, y) == [x |-> x, y |-> y]
VAdd(u, w) == vec2(FAdd(u.x, w.x), FAdd(u.y, w.y))
VScale(u, s) == vec2(FMul(u.x, s), FMul(u.y, s))
VSame(u, w) == FSame(u.x, w.x) /\ FSame(u.y, w.y)

\* glm: dot(a, b) = a.x * b.x + a.y * b.y; inversesqrt(x) = 1 / sqrt(x);
\* normalize(v) = v * inversesqrt(dot(v, v)).
dot(u, w) == FAdd(FMul(u.x, w.x), FMul(u.y, w.y))
inversesqrt(x) == FDiv(Real(1), sqrt(x))
normalize(v) == VScale(v, inversesqrt(dot(v, v)))

\* cos and sin are tabulated at the angles the model uses: each row is
\* <<alpha, cos(alpha), sin(alpha)>> in units, correctly rounded.  The
\* tabulated value is what the program computes with, so it starts with a
\* clear inexact flag.
TrigTable ==
  << <<0, 10000, 0>>,      <<6435, 8000, 6000>>,   <<31416, -10000, 0>>,
     <<24981, -8000, 6000>>, <<15708, 0, 10000>>,  <<47124, 0, -10000>>,
     <<7854, 7071, 7071>>, <<23562, -7071, 7071>>, <<636, 9980, 636>>,
     <<37851, -8000, -6000>>, <<9273, 6000, 8000>>, <<22143, -6000, 8000>>,
     <<54978, 7071, -7071>>, <<30780, -9980, 635>>, <<39270, -7071, -7071>> >>

HasTrig(alpha) == \E i \in 1..Len(TrigTable) : TrigTable[i][1] = alpha.v
TrigRow(alpha) == CHOOSE i \in 1..Len(TrigTable) : TrigTable[i][1] = alpha.v
cos(alpha) == IF IsFin(alpha) THEN F(TrigTable[TrigRow(alpha)][2]) ELSE NaN
sin(alpha) == IF IsFin(alpha) THEN F(TrigTable[TrigRow(alpha)][3]) ELSE NaN

\* ----------------------------------------------------------- solver ----

\* const float EPSILON = 0.001f
EPSILON == F(SCALE \div 1000)

is_zero(a) == FLess(abs(a), EPSILON)
square(a) == FMul(a, a)

\* The default member initialisers of struct piston_position.
NoResult == [is_valid |-> FALSE, value |-> vec2(Real(0), Real(0))]

\* A variant of invalid() that leaves the position member as the previous
\* result had it, as engine::calculate_positions of the older variant does.
invalid_stale == [is_valid |-> FALSE, value |-> piston_position.value]

invalid == [is_valid |-> FALSE, value |-> vec2(Real(0), Real(0))]
valid(position) == [is_valid |-> TRUE, value |-> position]

\* The coefficients of the quadratic in t, as the code computes them:
\* d is the normalised direction, l the cylinder origin.
coefficient_a(d) == FAdd(square(d.x), square(d.y))
\* A variant of b with the cosine and the sine exchanged.
coefficient_b_swapped(l, d, r, alpha) ==
  FMul(Real(2),
       FSub(FSub(FAdd(FMul(l.x, d.x), FMul(l.y, d.y)),
                 FMul(FMul(r, d.x), sin(alpha))),
            FMul(FMul(r, d.y), cos(alpha))))

coefficient_b(l, d, r, alpha) ==
  FMul(Real(2),
       FSub(FSub(FAdd(FMul(l.x, d.x), FMul(l.y, d.y)),
                 FMul(FMul(r, d.x), cos(alpha))),
            FMul(FMul(r, d.y), sin(alpha))))
coefficient_c(l, r, rcr, alpha) ==
  FAdd(FSub(FSub(FSub(FAdd(square(l.x), square(l.y)),
                      FMul(FMul(FMul(Real(2), r), l.x), cos(alpha))),
                 FMul(FMul(FMul(Real(2), r), l.y), sin(alpha))),
            square(rcr)),
       square(r))
discriminant_of(a, b, c) == FSub(square(b), FMul(FMul(Real(4), a), c))
\* A variant of the divisor without the factor 2.
divisor_of_a(a) == a

\* A variant of the root with +b in place of -b.
root_no_neg(b, discriminant, divisor) == FDiv(FAdd(b, sqrt(discriminant)), divisor)

divisor_of(a) == FMul(Real(2), a)
root(b, discriminant, divisor) == FDiv(FAdd(FNeg(b), sqrt(discriminant)), divisor)

\* The locals of piston_position::calculate, in the order the code computes
\* them.
quadratic(e) ==
  LET cylinder_direction == normalize(e.cylinder.direction)
      a == coefficient_a(cylinder_direction)
      b == coefficient_b(e.cylinder.origin, cylinder_direction,
                         e.crank.crank_radius, e.crank.angle)
      c == coefficient_c(e.cylinder.origin, e.crank.crank_radius,
                         e.connecting_rod_length, e.crank.angle)
      discriminant == discriminant_of(a, b, c)
      divisor == divisor_of(a)
  IN  [cylinder_direction |-> cylinder_direction, a |-> a, b |-> b, c |-> c,
       discriminant |-> discriminant, divisor |-> divisor,
       t |-> root(b, discriminant, divisor)]

\* The locals before any call.
NoLocals ==
  [cylinder_direction |-> vec2(Real(0), Real(0)), a |-> Real(0), b |-> Real(0),
   c |-> Real(0), discriminant |-> Real(0), divisor |-> Real(0), t |-> Real(0)]

\* The two early returns of piston_position::calculate.
\* Variants of the early returns: one rejecting a zero discriminant as well,
\* one tolerating a negative discriminant within EPSILON of zero.
rejected_le(q) == is_zero(q.divisor) \/ FLessEq(q.discriminant, Real(0))
rejected_tolerant(q) == is_zero(q.divisor) \/ FLess(q.discriminant, FNeg(EPSILON))

rejected(q) == is_zero(q.divisor) \/ FLess(q.discriminant, Real(0))

\* The result of piston_position::calculate given its locals.
result(e, q) ==
  IF rejected(q) THEN invalid
  ELSE valid(VAdd(e.cylinder.origin, VScale(q.cylinder_direction, q.t)))

calculate(e) == result(e, quadratic(e))

\* ---- the stateful variant: engine::calculate_positions ----

\* The default member initialisers of engine::piston.
NoPiston == [position |-> vec2(Real(0), Real(0)), exists |-> FALSE]

\* b and c as engine::calculate_positions computes them, from
\* rcos = r * cos(alpha) and rsin = r * sin(alpha).
positions_b(l, d, rcos, rsin) ==
  FMul(Real(2),
       FSub(FSub(FAdd(FMul(l.x, d.x), FMul(l.y, d.y)), FMul(d.x, rcos)),
            FMul(d.y, rsin)))
positions_c(l, r, rcr, rcos, rsin) ==
  FAdd(FSub(FSub(FSub(FAdd(square(l.x), square(l.y)),
                      FMul(FMul(Real(2), l.x), rcos)),
                 FMul(FMul(Real(2), l.y), rsin)),
            square(rcr)),
       square(r))

\* The locals of engine::calculate_positions.
positions_locals(e) ==
  LET cylinder_direction == normalize(e.cylinder.direction)
      r == e.crank.crank_radius
      rcos == FMul(r, cos(e.crank.angle))
      rsin == FMul(r, sin(e.crank.angle))
      a == coefficient_a(cylinder_direction)
      b == positions_b(e.cylinder.origin, cylinder_direction, rcos, rsin)
      c == positions_c(e.cylinder.origin, r, e.connecting_rod_length, rcos, rsin)
      discriminant == discriminant_of(a, b, c)
      divisor == divisor_of(a)
  IN  [cylinder_direction |-> cylinder_direction, a |-> a, b |-> b, c |-> c,
       discriminant |-> discriminant, divisor |-> divisor,
       t |-> root(b, discriminant, divisor)]

\* Variants of the failing return: one clears the position together with
\* the flag, one leaves the flag as it was.
piston_cleared(p) == NoPiston
piston_unflagged(p) == p

\* What a failing engine::calculate_positions leaves in engine.piston.
piston_missing(p) == [p EXCEPT !.exists = FALSE]

\* engine.piston after engine::calculate_positions on parameters e with
\* locals q, p being engine.piston before the call.
positions_result(e, q, p) ==
  IF is_zero(q.divisor) THEN piston_missing(p)
  ELSE IF FLess(q.discriminant, Real(0)) THEN piston_missing(p)
  ELSE [position |-> VAdd(e.cylinder.origin, VScale(q.cylinder_direction, q.t)),
        exists |-> TRUE]

calculate_positions(e, p) == positions_result(e, positions_locals(e), p)

\* The crankpin as draw_crankshaft and draw_connecting_rod compute it.
crankpin(e) ==
  vec2(FMul(cos(e.crank.angle), e.crank.crank_radius),
       FMul(sin(e.crank.angle), e.crank.crank_radius))

\* ------------------------------------------- the presentation shell ----

VSub(u, w) == vec2(FSub(u.x, w.x), FSub(u.y, w.y))
length(v) == sqrt(dot(v, v))

\* The default member initialisers of struct interface.
NoInterface == [show_cylinder_guides |-> TRUE, active_component |-> "NONE"]

guide_origin_radius == Real(20)

\* interface::set_active and interface::is_active of the stateful variant.
set_active(ui, c) ==
  IF ui.active_component = "NONE" THEN [ui EXCEPT !.active_component = c] ELSE ui
is_active(ui, c) == ui.active_component = c

\* Variants of the first owner test: one lets the origin handle take the
\* pointer from the other handle, one lets it respond without the button.
position_owner_any(ui, guide_position_active, down) ==
  IF guide_position_active /\ down THEN "CYLINDER_GUIDE_POSITION"
  ELSE ui.active_component
position_owner_hover(ui, guide_position_active, down) ==
  IF ui.active_component = "NONE" /\ guide_position_active
  THEN "CYLINDER_GUIDE_POSITION"
  ELSE ui.active_component

\* The owner of the pointer after the first test of draw_cylinder_guides.
position_owner(ui, guide_position_active, down) ==
  IF ui.active_component = "NONE" /\ guide_position_active /\ down
  THEN "CYLINDER_GUIDE_POSITION"
  ELSE ui.active_component

\* The owner of the pointer after the second test of draw_cylinder_guides.
direction_owner(ui, guide_direction_active, down) ==
  IF ui.active_component = "NONE" /\ guide_direction_active /\ down
  THEN "CYLINDER_GUIDE_DIRECTION"
  ELSE ui.active_component

\* length(mouse_position - position) < guide_origin_radius
guide_active(mouse_position, position) ==
  FLess(length(VSub(mouse_position, position)), guide_origin_radius)

\* What draw_cylinder_guides leaves: the interface, the cylinder with the
\* origin and the direction after the two assignments, and which of the two
\* were made.
guides_written(ui, wrote_origin, wrote_direction, origin, cylinder, mouse_position) ==
  [interface |-> ui,
   cylinder |-> [direction |-> IF wrote_direction
                               THEN VSub(mouse_position, origin)
                               ELSE cylinder.direction,
                 origin |-> origin],
   wrote_origin |-> wrote_origin, wrote_direction |-> wrote_direction]

\* origin = mouse_position under the first test, or the origin as it was.
guide_origin(wrote_origin, cylinder, mouse_position) ==
  IF wrote_origin THEN mouse_position ELSE cylinder.origin

\* draw_cylinder_guides of the loop with struct interface, from the second
\* test on: ui is the interface and origin the origin after the first.
guides_direction(ui, origin, cylinder, mouse_position, down) ==
  guides_written(
    [ui EXCEPT !.active_component =
       direction_owner(ui, guide_active(mouse_position,
                                        VAdd(origin, cylinder.direction)), down)],
    ui.active_component = "CYLINDER_GUIDE_POSITION",
    direction_owner(ui, guide_active(mouse_position,
                                     VAdd(origin, cylinder.direction)), down)
      = "CYLINDER_GUIDE_DIRECTION",
    origin, cylinder, mouse_position)

\* draw_cylinder_guides of the loop with struct interface, after the first
\* test left the interface ui.
guides_position(ui, cylinder, mouse_position, down) ==
  guides_direction(
    ui,
    guide_origin(ui.active_component = "CYLINDER_GUIDE_POSITION",
                 cylinder, mouse_position),
    cylinder, mouse_position, down)

\* draw_cylinder_guides of the loop with struct interface: the interface and
\* the cylinder it leaves, and which of the two vectors it wrote.
draw_cylinder_guides(ui, cylinder, mouse_position, down) ==
  guides_position(
    [ui EXCEPT !.active_component =
       position_owner(ui, guide_active(mouse_position, cylinder.origin), down)],
    cylinder, mouse_position, down)

\* draw_cylinder_guides of the stateful variant, through set_active and
\* is_active, from the second test on.
guides_direction_stateful(ui, origin, cylinder, mouse_position, down) ==
  guides_written(
    IF guide_active(mouse_position, VAdd(origin, cylinder.direction)) /\ down
    THEN set_active(ui, "CYLINDER_GUIDE_DIRECTION") ELSE ui,
    is_active(ui, "CYLINDER_GUIDE_POSITION"),
    is_active(IF guide_active(mouse_position,
                              VAdd(origin, cylinder.direction)) /\ down
              THEN set_active(ui, "CYLINDER_GUIDE_DIRECTION") ELSE ui,
              "CYLINDER_GUIDE_DIRECTION"),
    origin, cylinder, mouse_position)

guides_position_stateful(ui, cylinder, mouse_position, down) ==
  guides_direction_stateful(
    ui,
    guide_origin(is_active(ui, "CYLINDER_GUIDE_POSITION"), cylinder, mouse_position),
    cylinder, mouse_position, down)

draw_cylinder_guides_stateful(ui, cylinder, mouse_position, down) ==
  guides_position_stateful(
    IF guide_active(mouse_position, cylinder.origin) /\ down
    THEN set_active(ui, "CYLINDER_GUIDE_POSITION") ELSE ui,
    cylinder, mouse_position, down)

\* draw_cylinder_guides of the loop without struct interface: a handle
\* follows the mouse whenever the button is down within its radius.
guides_direction_plain(ui, wrote_origin, origin, cylinder, mouse_position, down) ==
  guides_written(
    ui, wrote_origin,
    guide_active(mouse_position, VAdd(origin, cylinder.direction)) /\ down,
    origin, cylinder, mouse_position)

guides_position_plain(ui, wrote_origin, cylinder, mouse_position, down) ==
  guides_direction_plain(ui, wrote_origin,
                         guide_origin(wrote_origin, cylinder, mouse_position),
                         cylinder, mouse_position, down)

draw_cylinder_guides_plain(ui, cylinder, mouse_position, down) ==
  guides_position_plain(
    ui, guide_active(mouse_position, cylinder.origin) /\ down,
    cylinder, mouse_position, down)

\* A variant of the reset that keeps the owner after the release.
released_keep(ui, down) == ui

\* if (IsMouseButtonUp(MOUSE_BUTTON_LEFT)) active_component = NONE
released(ui, down) ==
  IF ~down THEN [ui EXCEPT !.active_component = "NONE"] ELSE ui

\* A variant of the increment that leaves the crank where it is.
advance_none(angle, delta) == angle

\* engine.crank.angle += 0.05 * delta
advance(angle, delta) == FAdd(angle, FMul(F(SCALE \div 20), delta))

\* ------------------------------------------------------------ inputs ----

Engine(r, alpha, origin, direction, rcr) ==
  [crank |-> [crank_radius |-> r, angle |-> alpha],
   cylinder |-> [origin |-> origin, direction |-> direction],
   connecting_rod_length |-> rcr]

NumAngles == 9
NumDirections == 9
NumOrigins == 3
MaxCalls == 3

RadiusList == <<Real(50), Real(0), F(141)>>
RodList == <<Real(100), Real(10), Real(50), F(100)>>
OriginList ==
  << vec2(Real(0), Real(0)), vec2(Real(30), Real(40)), vec2(Real(0), Real(70)),
     vec2(F(499900), Real(0)) >>
DirectionList ==
  << vec2(Real(0), Real(20)), vec2(Real(0), Real(1)), vec2(Real(3), Real(4)),
     vec2(Real(0), Real(0)), vec2(Real(1), Real(1)), vec2(Real(0), Real(7)),
     vec2(Real(0), Real(-1)), vec2(Real(0), Real(400)), vec2(Real(0), Real(200)),
     vec2(Real(20), Real(0)) >>

Range(list, n) == {list[i] : i \in 1..(IF n < Len(list) THEN n ELSE Len(list))}
Angles == {F(TrigTable[i][1]) : i \in 1..(IF NumAngles < Len(TrigTable) THEN NumAngles ELSE Len(TrigTable))}

Engines ==
  {Engine(r, alpha, origin, direction, rcr) :
     r \in Range(RadiusList, 3), alpha \in Angles,
     origin \in Range(OriginList, NumOrigins),
     direction \in Range(DirectionList, NumDirections),
     rcr \in Range(RodList, 4)}

\* ------------------------------------------------------ state machine ----


\* Nothing drawn, nothing read: the frame record before the first frame.
NoFrame ==
  [mouse_position |-> vec2(Real(0), Real(0)), down |-> FALSE, delta |-> Real(0),
   before |-> <<>>, solver_input |-> <<>>, result |-> NoResult,
   drew_coordinates |-> FALSE, drew_crankshaft |-> FALSE,
   drew_rod |-> FALSE, drew_piston |-> FALSE, drawn_position |-> <<>>,
   guides |-> <<>>, wrote_origin |-> FALSE, wrote_direction |-> FALSE,
   owner_before |-> "NONE", owner_drag |-> "NONE", completed |-> FALSE]

\* The shell before the first frame, for a run of the solver alone.
InitShell ==
  /\ revision = "interface"
  /\ interface = NoInterface
  /\ piston = NoPiston
  /\ crankpin_position = vec2(Real(0), Real(0))
  /\ frame = NoFrame
  /\ frames = 0

Init ==
  /\ engine \in Engines
  /\ piston_position = NoResult
  /\ locals = NoLocals
  /\ calls = <<>>
  /\ InitShell

\* const auto piston_position = piston_position::calculate(engine);
Calculate ==
  /\ Len(calls) < MaxCalls
  /\ locals' = quadratic(engine)
  /\ piston_position' = result(engine, locals')
  /\ calls' = Append(calls, <<engine, piston_position'>>)
  /\ UNCHANGED <<engine, shell>>

Next == Calculate

Spec == Init /\ [][Next]_vars

\* A sequence of calls on changing parameters: between two calls the caller
\* may replace the parameters (crank angle, cylinder direction) by any other
\* snapshot.
CallEngines ==
  {Engine(Real(50), alpha, vec2(Real(0), Real(0)), direction, Real(10)) :
     alpha \in {F(0), F(15708), F(47124)},
     direction \in {vec2(Real(0), Real(20)), vec2(Real(20), Real(0))}}

InitCalls ==
  /\ engine \in CallEngines
  /\ piston_position = NoResult
  /\ locals = NoLocals
  /\ calls = <<>>
  /\ InitShell

SetParameters ==
  /\ Len(calls) < MaxCalls
  /\ \E e \in CallEngines : e # engine /\ engine' = e
  /\ UNCHANGED <<piston_position, locals, calls, shell>>

NextCalls == Calculate \/ SetParameters

SpecCalls == InitCalls /\ [][NextCalls]_vars

\* ---- the stateful variant called on changing parameters ----

\* The snapshots of CallEngines, one where the two variants round b and c
\* differently, one at tangency, and an oblique one that computes exactly.
PositionsEngines ==
  CallEngines \cup
    {Engine(F(141), F(636), vec2(Real(0), Real(70)), vec2(Real(0), Real(-1)), Real(10)),
     Engine(F(141), F(7854), vec2(Real(0), Real(70)), vec2(Real(0), Real(-1)), F(100)),
     Engine(Real(50), F(6435), vec2(Real(30), Real(40)), vec2(Real(3), Real(4)), Real(50))}

InitPositions ==
  /\ engine \in PositionsEngines
  /\ piston_position = NoResult
  /\ locals = NoLocals
  /\ calls = <<>>
  /\ revision = "stateful"
  /\ interface = NoInterface
  /\ piston = NoPiston
  /\ crankpin_position = vec2(Real(0), Real(0))
  /\ frame = NoFrame
  /\ frames = 0

\* engine.calculate_positions();
CalculatePositions ==
  /\ Len(calls) < MaxCalls
  /\ locals' = positions_locals(engine)
  /\ crankpin_position' = crankpin(engine)
  /\ piston' = positions_result(engine, locals', piston)
  /\ calls' = Append(calls, <<engine, piston'>>)
  /\ UNCHANGED <<engine, piston_position, revision, interface, frame, frames>>

NextPositions == CalculatePositions \/ SetParameters

SpecPositions == InitPositions /\ [][NextPositions]_vars

\* ---- the animation loop: one action per frame, per revision of main ----

MaxFrames == 3
\* The mouse in world coordinates: on the origin handle, on the direction
\* handle only, on the crank centre, far from both handles.
MousePositions ==
  {vec2(Real(0), Real(10)), vec2(Real(0), Real(25)), vec2(Real(0), Real(0)),
   vec2(Real(90), Real(0))}
ReleasedPositions == {vec2(Real(0), Real(10)), vec2(Real(90), Real(0))}
\* GetMousePosition() and IsMouseButtonDown(MOUSE_BUTTON_LEFT) of a frame.
Pointers ==
  {[mouse_position |-> m, down |-> TRUE] : m \in MousePositions}
    \cup {[mouse_position |-> m, down |-> FALSE] : m \in ReleasedPositions}
\* delta = GetFrameTime() / 0.016f: no time, or a quarter of a second.
Deltas == {Real(0), F(157080)}
Revisions == {"interface", "plain", "stateful"}

\* engine engine; with the default member initialisers of the revision.
DefaultEngine(rev) ==
  Engine(Real(50), Real(0), vec2(Real(0), Real(0)), vec2(Real(0), Real(20)),
         IF rev = "stateful" THEN Real(100) ELSE Real(70))

InitFrames ==
  /\ revision \in Revisions
  /\ engine = DefaultEngine(revision)
  /\ piston_position = NoResult
  /\ locals = NoLocals
  /\ calls = <<>>
  /\ interface = NoInterface
  /\ piston = NoPiston
  /\ crankpin_position = vec2(Real(0), Real(0))
  /\ frame = NoFrame
  /\ frames = 0

\* A variant of the test that draws whatever the result holds.
draws_always(r) == TRUE

\* if (piston_position.is_valid), if (engine.piston.exists): whether the
\* frame calls draw_connecting_rod and draw_piston.
draws_piston(r) == r.is_valid

\* The frame record: r is the solver's result as [is_valid, value], e1 the
\* parameters the solver read, g what draw_cylinder_guides returned.
FrameRecord(mouse_position, down, delta, e1, r, g) ==
  [mouse_position |-> mouse_position, down |-> down, delta |-> delta,
   before |-> engine, solver_input |-> e1, result |-> r,
   drew_coordinates |-> TRUE, drew_crankshaft |-> TRUE,
   drew_rod |-> draws_piston(r), drew_piston |-> draws_piston(r),
   drawn_position |-> IF draws_piston(r) THEN r.value ELSE <<>>,
   guides |-> g.cylinder, wrote_origin |-> g.wrote_origin,
   wrote_direction |-> g.wrote_direction,
   owner_before |-> interface.active_component,
   owner_drag |-> g.interface.active_component, completed |-> TRUE]

\* What the frame does when show_cylinder_guides is off.
NoGuides(ui, cylinder) ==
  [interface |-> ui, cylinder |-> cylinder,
   wrote_origin |-> FALSE, wrote_direction |-> FALSE]

\* One iteration of the loop of main with struct interface and the pure
\* solver: increment, solver, draws, guides (the drag), reset of the owner.
FrameInterface ==
  /\ revision = "interface" /\ frames < MaxFrames
  /\ \E delta \in Deltas, pointer \in Pointers :
     \E e1 \in {[engine EXCEPT !.crank.angle = advance(engine.crank.angle, delta)]} :
     \E g \in {IF interface.show_cylinder_guides
                THEN draw_cylinder_guides(interface, e1.cylinder,
                                          pointer.mouse_position, pointer.down)
                ELSE NoGuides(interface, e1.cylinder)} :
       LET mouse_position == pointer.mouse_position
           down == pointer.down
       IN  /\ HasTrig(e1.crank.angle)
           /\ locals' = quadratic(e1)
           /\ piston_position' = result(e1, locals')
           /\ engine' = [e1 EXCEPT !.cylinder = g.cylinder]
           /\ interface' = released(g.interface, down)
           /\ frame' = FrameRecord(mouse_position, down, delta, e1,
                                   piston_position', g)
  /\ frames' = frames + 1
  /\ UNCHANGED <<calls, revision, piston, crankpin_position>>

\* One iteration of the loop of main without struct interface: increment,
\* guides (the drag), solver, draws.
FramePlain ==
  /\ revision = "plain" /\ frames < MaxFrames
  /\ \E delta \in Deltas, pointer \in Pointers :
     \E e0 \in {[engine EXCEPT !.crank.angle = advance(engine.crank.angle, delta)]} :
     \E g \in {draw_cylinder_guides_plain(interface, e0.cylinder,
                                          pointer.mouse_position, pointer.down)} :
     \E e1 \in {[e0 EXCEPT !.cylinder = g.cylinder]} :
       LET mouse_position == pointer.mouse_position
           down == pointer.down
       IN  /\ HasTrig(e1.crank.angle)
           /\ locals' = quadratic(e1)
           /\ piston_position' = result(e1, locals')
           /\ engine' = e1
           /\ frame' = FrameRecord(mouse_position, down, delta, e1,
                                   piston_position', g)
  /\ frames' = frames + 1
  /\ UNCHANGED <<calls, revision, interface, piston, crankpin_position>>

\* One iteration of the loop of main of the stateful variant: increment,
\* calculate_positions, draws from engine.piston, guides, reset.
FrameStateful ==
  /\ revision = "stateful" /\ frames < MaxFrames
  /\ \E delta \in Deltas, pointer \in Pointers :
     \E e1 \in {[engine EXCEPT !.crank.angle = advance(engine.crank.angle, delta)]} :
     \E g \in {IF interface.show_cylinder_guides
                THEN draw_cylinder_guides_stateful(interface, e1.cylinder,
                                                   pointer.mouse_position,
                                                   pointer.down)
                ELSE NoGuides(interface, e1.cylinder)} :
       LET mouse_position == pointer.mouse_position
           down == pointer.down
       IN  /\ HasTrig(e1.crank.angle)
           /\ locals' = positions_locals(e1)
           /\ crankpin_position' = crankpin(e1)
           /\ piston' = positions_result(e1, locals', piston)
           /\ engine' = [e1 EXCEPT !.cylinder = g.cylinder]
           /\ interface' = released(g.interface, down)
           /\ frame' = FrameRecord(mouse_position, down, delta, e1,
                                   [is_valid |-> piston'.exists,
                                    value |-> piston'.position], g)
  /\ frames' = frames + 1
  /\ UNCHANGED <<calls, revision, piston_position>>

NextFrames == FrameInterface \/ FramePlain \/ FrameStateful

SpecFrames == InitFrames /\ [][NextFrames]_vars

\* ----------------------------------------------------- exact integers ----
\* Exact products of two magnitudes below 2 * 10^8 units, as three limbs
\* <<hi, mid, lo>> of base SCALE, for stating geometric facts without
\* rounding.

BigMul(x, y) ==
  LET x1 == x \div SCALE
      x0 == x % SCALE
      y1 == y \div SCALE
      y0 == y % SCALE
      p0 == x0 * y0
      p1 == x1 * y0 + x0 * y1 + p0 \div SCALE
  IN  <<x1 * y1 + p1 \div SCALE, p1 % SCALE, p0 % SCALE>>
BigAdd(u, w) ==
  LET lo == u[3] + w[3]
      mid == u[2] + w[2] + lo \div SCALE
  IN  <<u[1] + w[1] + mid \div SCALE, mid % SCALE, lo % SCALE>>
BigTimes(u, n) ==
  LET lo == u[3] * n
      mid == u[2] * n + lo \div SCALE
  IN  <<u[1] * n + mid \div SCALE, mid % SCALE, lo % SCALE>>
BigLess(u, w) ==
  \/ u[1] < w[1]
  \/ u[1] = w[1] /\ u[2] < w[2]
  \/ u[1] = w[1] /\ u[2] = w[2] /\ u[3] < w[3]
Sgn(n) == IF n < 0 THEN -1 ELSE IF n = 0 THEN 0 ELSE 1

IsFinVec(u) == IsFin(u.x) /\ IsFin(u.y)
IsExactVec(u) == IsFinVec(u) /\ ~u.x.ix /\ ~u.y.ix

\* u and w are parallel (their cross product is exactly zero).
Parallel(u, w) ==
  /\ BigMul(IAbs(u.x.v), IAbs(w.y.v)) = BigMul(IAbs(u.y.v), IAbs(w.x.v))
  /\ Sgn(u.x.v) * Sgn(w.y.v) = Sgn(u.y.v) * Sgn(w.x.v)

\* |u - w|^2 = len^2, exactly.
DistanceIs(u, w, len) ==
  BigAdd(BigMul(IAbs(u.x.v - w.x.v), IAbs(u.x.v - w.x.v)),
         BigMul(IAbs(u.y.v - w.y.v), IAbs(u.y.v - w.y.v)))
    = BigMul(IAbs(len.v), IAbs(len.v))

\* --------------------------------------------------------- the claims ----

Called == Len(calls) > 0
Origin == engine.cylinder.origin
Direction == engine.cylinder.direction
Radius == engine.crank.crank_radius
Rod == engine.connecting_rod_length
Alpha == engine.crank.angle
ZeroDirection == Direction.x.v = 0 /\ Direction.y.v = 0
Position == piston_position.value

\* C1: calculate returns Invalid if and only if the leading coefficient a is
\* within EPSILON of zero or the discriminant is negative, and a zero
\* direction never comes back as Valid.
C1_InvalidIffRejected ==
  Called =>
    /\ ~piston_position.is_valid
         <=> (is_zero(locals.a) \/ FLess(locals.discriminant, Real(0)))
    /\ ZeroDirection => ~piston_position.is_valid

\* C2 (as claimed): every Valid position lies on the cylinder axis through
\* the origin with direction D, at exactly the rod length from the crankpin,
\* for r > 0, L > 0 and a non-zero D.
C2_ExactRodLength ==
  (Called /\ piston_position.is_valid /\ Radius.v > 0 /\ Rod.v > 0 /\ ~ZeroDirection) =>
    /\ IsFinVec(Position)
    /\ Parallel(vec2(FSub(Position.x, Origin.x), FSub(Position.y, Origin.y)), Direction)
    /\ DistanceIs(Position, crankpin(engine), Rod)

\* The computed (cos alpha, sin alpha) is exactly a unit vector.
UnitTrig == FSame(FAdd(square(cos(Alpha)), square(sin(Alpha))), Real(1))
              /\ ~FAdd(square(cos(Alpha)), square(sin(Alpha))).ix

\* C2 (amended): a Valid position computed without any rounding, from a
\* (cos alpha, sin alpha) that is exactly a unit vector, lies on the axis at
\* exactly the rod length from the crankpin.
C2_RodLengthWhenExact ==
  (Called /\ piston_position.is_valid /\ IsExactVec(Position) /\ ~locals.t.ix /\ UnitTrig) =>
    /\ Parallel(vec2(FSub(Position.x, Origin.x), FSub(Position.y, Origin.y)), Direction)
    /\ DistanceIs(Position, crankpin(engine), Rod)

C2_Witness ==
  /\ Called /\ piston_position.is_valid /\ IsExactVec(Position) /\ ~locals.t.ix /\ UnitTrig
  /\ Radius.v > 0 /\ Alpha.v # 0 /\ locals.t.v # 0 /\ locals.b.v # 0
  /\ Origin.y.v # 0 /\ Direction.x.v # 0

\* C3: a Valid position is never behind the cylinder origin: its parameter
\* t on the ray O + t * normalize(D) is not negative.
C3_NeverBehindOrigin ==
  (Called /\ piston_position.is_valid) => ~FLess(locals.t, Real(0))

\* The two roots of the quadratic formula.
PlusRoot == FDiv(FAdd(FNeg(locals.b), sqrt(locals.discriminant)), locals.divisor)
MinusRoot == FDiv(FSub(FNeg(locals.b), sqrt(locals.discriminant)), locals.divisor)

\* C4: whenever the result is Valid, t is the "+" root of the quadratic and
\* is greater than or equal to the "-" root.
C4_LargerRoot ==
  (Called /\ piston_position.is_valid) =>
    /\ FSame(locals.t, PlusRoot)
    /\ VSame(Position, VAdd(Origin, VScale(locals.cylinder_direction, PlusRoot)))
    /\ FLessEq(MinusRoot, locals.t)

\* C5 (as claimed): with crank radius 0 the result is Valid and equals
\* O + L * normalize(D), for every angle, origin and non-zero direction.
C5_ZeroRadiusOffset ==
  (Called /\ Radius.v = 0 /\ ~ZeroDirection) =>
    /\ piston_position.is_valid
    /\ VSame(Position, VAdd(Origin, VScale(normalize(Direction), Rod)))

\* No operation of the latest call rounded, overflowed or produced NaN.
ExactRun == IsFin(locals.t) /\ ~locals.t.ix

\* C5 (amended): with crank radius 0 and the cylinder origin at the crank
\* centre (0,0), a computation that does not round returns Valid with
\* position L * normalize(D), for every angle and non-zero direction.
C5_ZeroRadiusAtCentre ==
  (Called /\ Radius.v = 0 /\ Origin.x.v = 0 /\ Origin.y.v = 0 /\ ~ZeroDirection
     /\ ExactRun) =>
    /\ piston_position.is_valid
    /\ VSame(Position, VAdd(Origin, VScale(normalize(Direction), Rod)))

C5_Witness ==
  /\ Called /\ Radius.v = 0 /\ Origin.x.v = 0 /\ Origin.y.v = 0 /\ ExactRun
  /\ piston_position.is_valid /\ Alpha.v # 0
  /\ Direction.x.v # 0 /\ Direction.y.v # 0 /\ Position.x.v # 0

\* The direction is zero, or its normalisation has a within EPSILON of zero.
Degenerate == ZeroDirection \/ is_zero(coefficient_a(normalize(Direction)))

\* The perpendicular distance from the crankpin to the infinite axis line
\* through O with direction D exceeds the rod length: with w = crankpin - O,
\* cross(w, D)^2 > L^2 * |D|^2, in exact integers (D in whole numbers).
TooFar ==
  LET w == crankpin(engine)
      Dx == Direction.x.v \div SCALE
      Dy == Direction.y.v \div SCALE
      X == (w.x.v - Origin.x.v) * Dy - (w.y.v - Origin.y.v) * Dx
  IN  BigLess(BigTimes(BigMul(IAbs(Rod.v), IAbs(Rod.v)), Dx * Dx + Dy * Dy),
              BigMul(IAbs(X), IAbs(X)))

ShortRodScenario ==
  Engine(Real(50), Real(0), vec2(Real(0), Real(0)), vec2(Real(0), Real(1)), Real(10))

\* C6 (as claimed): for a non-degenerate direction the result is Invalid
\* exactly when the perpendicular distance from the crankpin to the axis line
\* exceeds L; and r=50, L=10, O=(0,0), D=(0,1), alpha=0 is Invalid.
C6_InvalidIffTooFar ==
  /\ (Called /\ ~Degenerate) => (~piston_position.is_valid <=> TooFar)
  /\ (Called /\ engine = ShortRodScenario) => ~piston_position.is_valid

\* The discriminant and the crankpin were computed without rounding.
ExactDiscriminant ==
  /\ IsFin(locals.discriminant) /\ ~locals.discriminant.ix
  /\ IsExactVec(crankpin(engine))

\* C6 (amended): for a non-degenerate direction, when the discriminant is
\* computed without rounding from a (cos alpha, sin alpha) that is exactly a
\* unit vector, the result is Invalid exactly when the perpendicular distance
\* from the crankpin to the axis line exceeds L; and r=50, L=10, O=(0,0),
\* D=(0,1), alpha=0 is Invalid.
C6_InvalidIffTooFarWhenExact ==
  /\ (Called /\ ~Degenerate /\ ExactDiscriminant /\ UnitTrig)
       => (~piston_position.is_valid <=> TooFar)
  /\ (Called /\ engine = ShortRodScenario) => ~piston_position.is_valid

C6_Witness ==
  /\ Called /\ engine = ShortRodScenario /\ ~Degenerate /\ ExactDiscriminant
  /\ UnitTrig /\ TooFar /\ ~piston_position.is_valid

\* C7: any two calls with identical parameters, wherever they stand in the
\* sequence of calls, returned identical results.
C7_SameInputsSameResult ==
  \A i, j \in 1..Len(calls) :
    calls[i][1] = calls[j][1] => calls[i][2] = calls[j][2]

\* Two calls with the same parameters, another call between them, one of the
\* three results Invalid.
C7_Witness ==
  /\ Len(calls) >= 3
  /\ calls[1][1] = calls[3][1] /\ calls[2][1] # calls[1][1]
  /\ ~calls[1][2].is_valid /\ calls[2][2].is_valid

\* C8: the discriminant check is strict: a discriminant of exactly 0 (and
\* any other non-negative one) gives Valid, with t = -b / (2a) at 0, and
\* every negative discriminant gives Invalid; only the divisor check uses
\* EPSILON.
C8_StrictDiscriminant ==
  Called =>
    /\ (FLessEq(Real(0), locals.discriminant) /\ ~is_zero(locals.divisor))
         => piston_position.is_valid
    /\ (FEq(locals.discriminant, Real(0)) /\ ~is_zero(locals.divisor))
         => FSame(locals.t, FDiv(FNeg(locals.b), locals.divisor))
    /\ FLess(locals.discriminant, Real(0)) => ~piston_position.is_valid

\* A negative discriminant within EPSILON of zero, rejected.
C8_Witness ==
  /\ Called /\ FLess(locals.discriminant, Real(0)) /\ is_zero(locals.discriminant)
  /\ ~piston_position.is_valid

\* The parameters with the direction scaled by k.
MaxK == 3
Scaled(e, k) ==
  [e EXCEPT !.cylinder.direction = VScale(e.cylinder.direction, Real(k))]
SameResult(p, q) == p.is_valid = q.is_valid /\ VSame(p.value, q.value)

\* C9: scaling a non-zero direction by a positive constant changes neither
\* the validity nor the position.
C9_ScaleInvariant ==
  (Called /\ ~ZeroDirection) =>
    \A k \in 1..MaxK : SameResult(calculate(Scaled(engine, k)), piston_position)

\* The parameters with the crank angle replaced by pi - alpha.
Pi == F(31416)
Mirror(e) == [e EXCEPT !.crank.angle = FSub(Pi, e.crank.angle)]
Scenario(alpha) ==
  Engine(Real(50), alpha, vec2(Real(0), Real(0)), vec2(Real(0), Real(20)), Real(100))
VerticalThroughCentre ==
  /\ Origin.x.v = 0 /\ Origin.y.v = 0
  /\ Direction.x.v = 0 /\ Direction.y.v # 0
  /\ HasTrig(FSub(Pi, Alpha))

\* C10 (as claimed): with r=50, L=100, O=(0,0), D=(0,20) the result at
\* alpha=0 and at alpha=pi is Valid, the same point (0, y) with y > 0 and
\* y^2 = 100^2 - 50^2; for a vertical axis through the crank centre the
\* results at alpha and pi - alpha coincide.
C10_SymmetricExact ==
  /\ (Called /\ engine \in {Scenario(Real(0)), Scenario(Pi)}) =>
       /\ piston_position.is_valid
       /\ FSame(Position.x, Real(0)) /\ FLess(Real(0), Position.y)
       /\ BigAdd(BigMul(IAbs(Position.y.v), IAbs(Position.y.v)),
                 BigMul(IAbs(Radius.v), IAbs(Radius.v)))
            = BigMul(IAbs(Rod.v), IAbs(Rod.v))
       /\ SameResult(calculate(Mirror(engine)), piston_position)
  /\ (Called /\ VerticalThroughCentre) =>
       SameResult(calculate(Mirror(engine)), piston_position)

\* y is within one unit of resolution of sqrt(L^2 - r^2).
NearRoot(y, r, len) ==
  /\ ~BigLess(BigMul(len, len), BigAdd(BigMul(y - 1, y - 1), BigMul(r, r)))
  /\ ~BigLess(BigAdd(BigMul(y + 1, y + 1), BigMul(r, r)), BigMul(len, len))

\* C10 (amended): in that scenario the result at alpha=0 and at alpha=pi is
\* Valid, a point (0, y) with y > 0 and y equal to sqrt(100^2 - 50^2) up to
\* rounding; for a vertical axis through the crank centre the results
\* at alpha and pi - alpha coincide when the two computed sines are equal.
C10_SymmetricRounded ==
  /\ (Called /\ engine \in {Scenario(Real(0)), Scenario(Pi)}) =>
       /\ piston_position.is_valid
       /\ FSame(Position.x, Real(0)) /\ FLess(Real(0), Position.y)
       /\ NearRoot(Position.y.v, Radius.v, Rod.v)
  /\ (Called /\ VerticalThroughCentre /\ FSame(sin(FSub(Pi, Alpha)), sin(Alpha))) =>
       SameResult(calculate(Mirror(engine)), piston_position)

C10_Witness ==
  Called /\ engine = Scenario(Pi) /\ piston_position.is_valid /\ Position.y.v > 0

\* The latest call of calculate_positions was made on the current parameters.
AfterPositions == Called /\ calls[Len(calls)][1] = engine

\* C11 (as claimed): after every call of the stateful variant, piston.exists
\* equals is_valid of the pure solver on the same parameters, and when the
\* piston exists piston.position equals the pure solver's value.
C11_StatefulEqualsPure ==
  AfterPositions =>
    /\ piston.exists = calculate(engine).is_valid
    /\ piston.exists => VSame(piston.position, calculate(engine).value)

\* Neither variant rounded on the way to its discriminant.
ExactDiscriminants ==
  /\ IsFin(locals.discriminant) /\ ~locals.discriminant.ix
  /\ IsFin(quadratic(engine).discriminant) /\ ~quadratic(engine).discriminant.ix

\* C11 (amended): after every call of the stateful variant in which neither
\* variant rounds while computing its discriminant, piston.exists equals
\* is_valid of the pure solver on the same parameters, and when the piston
\* exists piston.position equals the pure solver's value.
C11_StatefulEqualsPureWhenExact ==
  (AfterPositions /\ ExactDiscriminants) =>
    /\ piston.exists = calculate(engine).is_valid
    /\ piston.exists => VSame(piston.position, calculate(engine).value)

\* A failing call after a successful one, both computed exactly.
C11_Witness ==
  /\ AfterPositions /\ ExactDiscriminants /\ Len(calls) >= 2
  /\ ~piston.exists /\ calls[Len(calls) - 1][2].exists

\* The solver's result on the parameters the latest frame passed to it,
\* computed anew.
FreshResult ==
  IF revision = "stateful"
  THEN LET p == calculate_positions(frame.solver_input, NoPiston)
       IN  [is_valid |-> p.exists, value |-> p.position]
  ELSE calculate(frame.solver_input)

\* C12: in every frame the connecting rod and the piston are drawn if and
\* only if the solver's result of that frame is valid, at the position of
\* that result; coordinates and crankshaft are drawn and the frame completes
\* either way.
C12_DrawnIffValid ==
  frames > 0 =>
    /\ frame.completed /\ frame.drew_coordinates /\ frame.drew_crankshaft
    /\ frame.drew_rod <=> FreshResult.is_valid
    /\ frame.drew_piston <=> FreshResult.is_valid
    /\ frame.drew_rod => frame.drawn_position = FreshResult.value

\* A frame with an Invalid result after frames with a Valid one.
C12_Witness ==
  /\ frames > 1 /\ revision = "interface" /\ ~frame.result.is_valid
  /\ ~frame.drew_rod /\ ~frame.drew_piston /\ frame.completed

\* C13: in every frame the solver reads the cylinder origin and direction
\* that result from that frame's drag, which are the ones the guides of the
\* frame are drawn with.
C13_DragBeforeSolver ==
  frames > 0 => frame.solver_input.cylinder = frame.guides

\* C14: after any sequence of frames and drags the stored cylinder
\* direction is not the zero vector, and the solver never receives one.
C14_DirectionNeverZero ==
  frames > 0 =>
    /\ ~ZeroDirection
    /\ ~(frame.solver_input.cylinder.direction.x.v = 0
           /\ frame.solver_input.cylinder.direction.y.v = 0)

\* The latest frame ran a loop that has struct interface.
OwnedFrame == frames > 0 /\ revision # "plain"

\* The cursor of the latest frame was within the radius of the origin
\* handle, of the direction handle, as the frame found them.
OnOriginHandle ==
  FLess(length(VSub(frame.mouse_position, frame.before.cylinder.origin)),
        guide_origin_radius)
OnDirectionHandle ==
  FLess(length(VSub(frame.mouse_position,
                    VAdd(frame.before.cylinder.origin,
                         frame.before.cylinder.direction))),
        guide_origin_radius)

\* C15: at most one cylinder handle responds to the mouse at a time: a
\* frame writes the origin only as the origin handle's drag and the
\* direction only as the direction handle's, never both; and while one
\* handle is the active component the other handle's vector is not written,
\* wherever the cursor is.
C15_ExclusiveOwnership ==
  OwnedFrame =>
    /\ ~(frame.wrote_origin /\ frame.wrote_direction)
    /\ frame.wrote_origin => frame.owner_drag = "CYLINDER_GUIDE_POSITION"
    /\ frame.wrote_direction => frame.owner_drag = "CYLINDER_GUIDE_DIRECTION"
    /\ frame.owner_before = "CYLINDER_GUIDE_POSITION" =>
         /\ ~frame.wrote_direction
         /\ frame.guides.direction = frame.before.cylinder.direction
    /\ frame.owner_before = "CYLINDER_GUIDE_DIRECTION" =>
         /\ ~frame.wrote_origin
         /\ frame.guides.origin = frame.before.cylinder.origin
    /\ frame.guides = engine.cylinder

\* The direction handle owns the pointer and the cursor, button held, is
\* within the radius of the origin handle.
C15_Witness ==
  /\ OwnedFrame /\ revision = "interface"
  /\ frame.owner_before = "CYLINDER_GUIDE_DIRECTION" /\ frame.down
  /\ OnOriginHandle /\ frame.wrote_direction
  /\ frame.guides.direction # frame.before.cylinder.direction

\* C16: at the end of every frame in which the button is up no component
\* is active, and a handle becomes the active component only in a frame in
\* which the button is down, no component was active and the cursor is
\* within the radius of that handle.
C16_ResetOnRelease ==
  OwnedFrame =>
    /\ frame.owner_drag \in {"NONE", "CYLINDER_GUIDE_DIRECTION", "CYLINDER_GUIDE_POSITION"}
    /\ ~frame.down => interface.active_component = "NONE"
    /\ frame.down => interface.active_component = frame.owner_drag
    /\ frame.owner_drag # frame.owner_before =>
         /\ frame.down /\ frame.owner_before = "NONE"
         /\ frame.owner_drag = "CYLINDER_GUIDE_POSITION" => OnOriginHandle
         /\ frame.owner_drag = "CYLINDER_GUIDE_DIRECTION" => OnDirectionHandle

\* A handle taken again after a drag and a release: the origin is not the
\* initial one any more, and no component was active.
C16_Witness ==
  /\ OwnedFrame /\ revision = "interface" /\ frames > 2
  /\ frame.owner_before = "NONE" /\ frame.down
  /\ interface.active_component = "CYLINDER_GUIDE_POSITION"
  /\ frame.before.cylinder.origin # DefaultEngine(revision).cylinder.origin

\* C17: a frame changes the parameters only in the cylinder origin and
\* direction (the drag) and in the crank angle, which becomes
\* angle + 0.05 * delta and never decreases; the crank radius and the rod
\* length keep their initial values; what the solver was given is what the
\* frame holds apart from the drag.
C17_OnlyCylinderAndAngle ==
  frames > 0 =>
    /\ engine.crank.crank_radius = DefaultEngine(revision).crank.crank_radius
    /\ engine.connecting_rod_length = DefaultEngine(revision).connecting_rod_length
    /\ FSame(engine.crank.angle,
             FAdd(frame.before.crank.angle, FMul(F(SCALE \div 20), frame.delta)))
    /\ ~FLess(engine.crank.angle, frame.before.crank.angle)
    /\ engine = [frame.before EXCEPT !.crank.angle = engine.crank.angle,
                                     !.cylinder = frame.guides]
    /\ engine = [frame.solver_input EXCEPT !.cylinder = frame.guides]

\* A frame that advanced the crank and dragged the origin.
C17_Witness ==
  /\ frames > 0 /\ revision = "interface"
  /\ FLess(frame.before.crank.angle, engine.crank.angle)
  /\ frame.wrote_origin /\ engine.cylinder.origin # frame.before.cylinder.origin

\* C18 (as claimed): a frame in which the button is up leaves the cylinder
\* origin and direction unchanged, wherever the cursor is and whatever
\* happened in earlier frames.
C18_WrittenOnlyWhenDown ==
  (OwnedFrame /\ ~frame.down) =>
    /\ ~frame.wrote_origin /\ ~frame.wrote_direction
    /\ engine.cylinder = frame.before.cylinder

\* C18 (amended): a frame in which the button is up and no component is
\* active when the frame starts leaves the cylinder origin and direction
\* unchanged, wherever the cursor is; a frame writes one of them only if
\* the button is down or a handle is still active from the frame before.
C18_WrittenOnlyWhenDownOrOwned ==
  frames > 0 =>
    /\ (~frame.down /\ frame.owner_before = "NONE") =>
         /\ ~frame.wrote_origin /\ ~frame.wrote_direction
         /\ engine.cylinder = frame.before.cylinder
    /\ (frame.wrote_origin \/ frame.wrote_direction
           \/ engine.cylinder # frame.before.cylinder) =>
         (frame.down \/ frame.owner_before # "NONE")

\* The button is up, nothing is active, the cursor is on the origin handle,
\* after an earlier drag.
C18_Witness ==
  /\ OwnedFrame /\ frames > 1 /\ ~frame.down /\ frame.owner_before = "NONE"
  /\ OnOriginHandle /\ ~frame.wrote_origin
  /\ frame.before.cylinder.origin # DefaultEngine(revision).cylinder.origin

\* C19: in the stateful variant every call updates crankpin_position; a
\* call that finds no solution clears piston.exists and leaves
\* piston.position as it was; and the frame draws the rod and the piston,
\* which read piston.position, only when piston.exists.
C19_StalePositionNeverDrawn ==
  [][(revision = "stateful" /\ frames' = frames + 1) =>
       /\ crankpin_position' = crankpin(frame'.solver_input)
       /\ piston'.exists =
            calculate_positions(frame'.solver_input, NoPiston).exists
       /\ ~piston'.exists => piston'.position = piston.position
       /\ (frame'.drew_rod \/ frame'.drew_piston) => piston'.exists]_vars

\* No piston, and a position left from an earlier frame: not the record a
\* first call on the same parameters leaves.
C19_Witness ==
  /\ revision = "stateful" /\ frames > 1 /\ ~piston.exists
  /\ piston.position # NoPiston.position
  /\ piston # calculate_positions(frame.solver_input, NoPiston)
  /\ ~frame.drew_rod /\ ~frame.drew_piston
  /\ crankpin_position # NoPiston.position
====
